---- MODULE Spec2Model ----
(***************************************************************************)
(* Verification model of the generator source (src/sources/generator.rs), *)
(* of the Datadog Archives sink (src/sinks/datadog_archives.rs): encoder,  *)
(* ids, request builder and build, of the endpoints of the Datadog Metrics *)
(* sink (src/sinks/datadog/metrics/config.rs), and of the Batcher.         *)
(*                                                                         *)
(* Strings are sequences of one-character strings, so that formatting and  *)
(* parsing are computed and not assumed.  Log values are tagged tuples:    *)
(* <<"bytes", s>>, <<"timestamp", t>>, <<"integer", i>>, <<"map", m>>.     *)
(***************************************************************************)
EXTENDS Integers, Sequences, FiniteSets, TLC

VARIABLES
    cfg,            \* GeneratorConfig: interval, count, format, decoder
    pc,             \* position of the source task
    buildErr,       \* error returned by build, "none" when it succeeded
    n,              \* loop index of `for n in 0..count`
    timer,          \* Option<Interval>: "None" or the deadline of the next tick
    ticks,          \* number of interval.tick() awaits that have completed
    lines,          \* lines returned by generate_line so far, in order
    stream,         \* items the FramedRead of the current line still holds
    events,         \* events of the current item not yet sent
    now,            \* Utc::now() taken for the current item
    chan,           \* the bounded channel behind `out`
    received,       \* events the receiver has taken, in order
    rxOpen,         \* the receiver has not been dropped
    rxEnded,        \* the receiver has observed end-of-stream
    outDropped,     \* the source has returned and dropped `out`
    shutdown,       \* the shutdown signal is ready
    result,         \* return value of generator_source: "none", "Ok", "Err"
    startAt,        \* clock value at which generator_source started
    clock,          \* Utc::now() / the timer's clock, in ticks
    log_schema,     \* the LogSchema the Archives encoder reads
    workload,       \* the batches handed to encode_input, in order
    done,           \* number of these batches already encoded
    writer,         \* the objects written by encode_input, in order
    id_rnd_bytes,   \* DatadogArchivesEncoding::id_rnd_bytes
    id_seq_number,  \* DatadogArchivesEncoding::id_seq_number, big-endian u32
    atShutdown,     \* history: what the source had done when shutdown fired
    tasks,          \* per task calling generate_log_id: position and locals
    issued,         \* the ids generate_log_id has returned, in order
    builder,        \* DatadogS3RequestBuilder: bucket, key_prefix, config
    batchIn,        \* the (partition_key, events) input of split_input
    splitOut,       \* the (metadata, events) split_input returned
    payloadIn,      \* the encoded, compressed events handed to build_request
    request,        \* the S3Request build_request returned
    archCfg,        \* DatadogArchivesSinkConfig, and what its collaborators do
    buildPc,        \* position inside DatadogArchivesSinkConfig::new
    created,        \* the objects `new` has created so far
    buildResult,    \* what `new` returned
    metricsCfg,     \* DatadogMetricsConfig and the crate version
    metricsResult,  \* what generate_metric_endpoints returned
    batcher,        \* the Batcher: settings and per-partition buffers
    emitted         \* the batch the Batcher emitted last

genVars == <<cfg, pc, buildErr, n, timer, ticks, lines, stream, events,
             now, chan, received, rxOpen, rxEnded, outDropped, shutdown, result,
             startAt, clock, atShutdown>>

\* The generator's variables but the clock.
genRest == <<cfg, pc, buildErr, n, timer, ticks, lines, stream, events, now,
             chan, received, rxOpen, rxEnded, outDropped, shutdown, result,
             startAt, atShutdown>>

archVars == <<log_schema, workload, done, writer, id_rnd_bytes, id_seq_number>>

idVars == <<tasks, issued>>

s3Vars == <<builder, batchIn, splitOut, payloadIn, request>>

buildVars == <<archCfg, buildPc, created, buildResult>>

metricsVars == <<metricsCfg, metricsResult>>

batcherVars == <<batcher, emitted>>

sinkVars == <<idVars, s3Vars, buildVars, metricsVars, batcherVars>>

vars == <<genVars, archVars, sinkVars>>

\* ---------------------------------------------------------------- bounds
MaxCount == 2
LongCount == 11
MaxClock == 3
ChanCap == 1

\* ---------------------------------------------------------------- strings
Digits == <<"0", "1", "2", "3", "4", "5", "6", "7", "8", "9">>

RECURSIVE ToDecimal(_)
\* `{}` of a usize: the decimal digits, most significant first.
ToDecimal(k) ==
    IF k < 10 THEN <<Digits[k + 1]>>
    ELSE ToDecimal(k \div 10) \o <<Digits[(k % 10) + 1]>>

IsDigit(c) == \E d \in 1..10 : Digits[d] = c

DigitValue(c) == (CHOOSE d \in 1..10 : Digits[d] = c) - 1

RECURSIVE ParseDigits(_, _)
ParseDigits(s, acc) ==
    IF s = <<>> THEN acc
    ELSE ParseDigits(Tail(s), acc * 10 + DigitValue(Head(s)))

\* Index of the first occurrence of character c in s, 0 when there is none.
IndexOf(s, c) ==
    IF \E i \in 1..Len(s) : s[i] = c
    THEN CHOOSE i \in 1..Len(s) : s[i] = c /\ \A j \in 1..(i - 1) : s[j] # c
    ELSE 0

RECURSIVE SplitOn(_, _)
\* The frames of s separated by character c; no frame for an empty rest.
SplitOn(s, c) ==
    IF s = <<>> THEN <<>>
    ELSE LET i == IndexOf(s, c) IN
         IF i = 0 THEN <<s>>
         ELSE <<SubSeq(s, 1, i - 1)>> \o SplitOn(SubSeq(s, i + 1, Len(s)), c)

\* ---------------------------------------------------------------- values
Bytes(s) == <<"bytes", s>>
Timestamp(t) == <<"timestamp", t>>
Integer(i) == <<"integer", i>>

GENERATOR == <<"g", "e", "n", "e", "r", "a", "t", "o", "r">>
SYSLOG == <<"s", "y", "s", "l", "o", "g">>

\* The process-wide log schema (log_schema()), with its default keys.
DefaultSchema ==
    [timestamp_key |-> "timestamp", message_key |-> "message",
     host_key |-> "host", source_type_key |-> "source_type"]

\* LogEvent::try_insert: insert only when the key is absent.
TryInsert(log, key, value) ==
    IF key \in DOMAIN log THEN log ELSE (key :> value) @@ log

\* ---------------------------------------------------------------- generator
\* Lines of a Shuffle configuration: one plain, one that itself starts with a
\* number and holds a space, and one that holds a newline.
LineA == <<"a">>
LineB == <<"7", " ", "b">>
LineC == <<"x", "\n", "y">>

ShuffleLists == {<<>>, <<LineA, LineB>>, <<LineC>>}

OtherKinds == {"ApacheCommon", "ApacheError", "Syslog", "BsdSyslog", "Json"}

\* OutputFormat
Formats ==
    {[kind |-> "Shuffle", sequence |-> s, lines |-> l] :
        s \in BOOLEAN, l \in ShuffleLists}
    \cup {[kind |-> k, sequence |-> FALSE, lines |-> <<>>] : k \in OtherKinds}

\* The framing+decoding chains of the model.  "bytes" is the default chain
\* (default_framing_message_based, default_decoding).
Decoders ==
    {"bytes", "newline_bytes", "syslog", "batch", "err_continue", "err_stop",
     "invalid"}

\* interval, in clock units; 0 disables pacing.
Intervals == {0, 2}

\* A run long enough for two-digit sequence numbers.
LongConfig ==
    [interval |-> 0, count |-> LongCount,
     format |-> [kind |-> "Shuffle", sequence |-> TRUE, lines |-> <<LineB>>],
     decoder |-> "bytes"]

\* Formats that are run through every chain, not only the default one.
ChainFormats ==
    {[kind |-> "Shuffle", sequence |-> FALSE, lines |-> <<LineA, LineB>>],
     [kind |-> "Shuffle", sequence |-> TRUE, lines |-> <<LineC>>]}

\* GeneratorConfig
Configs ==
    [interval : Intervals, count : 0..MaxCount, format : Formats,
     decoder : {"bytes", "invalid"}]
    \cup [interval : Intervals, count : 0..MaxCount, format : ChainFormats,
          decoder : Decoders]
    \cup {LongConfig}

\* One line of the fakedata crate per non-shuffle format.
FakeLine(kind) ==
    CASE kind = "ApacheCommon" -> <<"G", "E", "T">>
      [] kind = "ApacheError" -> <<"[", "e", "]">>
      [] kind = "Syslog" -> <<"<", "1", ">", "1">>
      [] kind = "BsdSyslog" -> <<"<", "1", ">">>
      [] OTHER -> <<"{", "}">>


\* Mutant: the sequence number is one-based.
shuffle_generate_OneBased(sequence, line, k) ==
    IF sequence THEN ToDecimal(k + 1) \o <<" ">> \o line ELSE line

\* OutputFormat::shuffle_generate, for the line that `choose` picked.
shuffle_generate(sequence, line, k) ==
    IF sequence THEN ToDecimal(k) \o <<" ">> \o line ELSE line

\* OutputFormat::generate_line: the set of lines it can return at tick k.
generate_line(format, k) ==
    IF format.kind = "Shuffle"
    THEN {shuffle_generate(format.sequence, format.lines[i], k) :
            i \in 1..Len(format.lines)}
    ELSE {FakeLine(format.kind)}


\* Mutant: the emptiness check is missing.
validate_Unchecked(format) == "Ok"

\* OutputFormat::validate
validate(format) ==
    IF format.kind = "Shuffle"
    THEN IF format.lines = <<>> THEN "ShuffleGeneratorItemsEmpty" ELSE "Ok"
    ELSE "Ok"

\* Items of the decoded stream.
OkItem(evs) == [ok |-> TRUE, events |-> evs, can_continue |-> TRUE]
ErrItem(cont) == [ok |-> FALSE, events |-> <<>>, can_continue |-> cont]

Msg(line) == ("message" :> Bytes(line))

RECURSIVE FramesToItems(_)
FramesToItems(frames) ==
    IF frames = <<>> THEN <<>>
    ELSE <<OkItem(<<Msg(Head(frames))>>)>> \o FramesToItems(Tail(frames))

\* FramedRead over the bytes of one line: the items the stream yields.
Decode(decoder, line) ==
    CASE decoder = "bytes" -> <<OkItem(<<Msg(line)>>)>>
      [] decoder = "newline_bytes" -> FramesToItems(SplitOn(line, "\n"))
      [] decoder = "syslog" ->
            <<OkItem(<<("source_type" :> Bytes(SYSLOG))
                       @@ ("timestamp" :> Timestamp(-1)) @@ Msg(line)>>)>>
      [] decoder = "batch" ->
            <<OkItem(<<Msg(line),
                       ("source_type" :> Bytes(SYSLOG)) @@ Msg(line)>>),
              OkItem(<<("timestamp" :> Timestamp(-1)) @@ Msg(line)>>)>>
      [] decoder = "err_continue" -> <<ErrItem(TRUE), OkItem(<<Msg(line)>>)>>
      [] decoder = "err_stop" -> <<ErrItem(FALSE), OkItem(<<Msg(line)>>)>>
      [] OTHER -> <<>>

\* DecodingConfig::build
DecoderBuilds(decoder) == decoder # "invalid"

NoTimer == [some |-> FALSE, deadline |-> 0]

\* The shutdown signal has not fired yet.
NotYet == [lines |-> 0, forwarded |-> 0, stage |-> "none"]

\* The parts of the state a specification does not exercise stay idle.
IdsIdle == tasks = <<>> /\ issued = <<>>

S3Idle ==
    /\ builder = <<>>
    /\ batchIn = <<>>
    /\ splitOut = <<>>
    /\ payloadIn = <<>>
    /\ request = <<>>

BuildIdle ==
    archCfg = <<>> /\ buildPc = "idle" /\ created = {} /\ buildResult = <<>>

MetricsIdle == metricsCfg = <<>> /\ metricsResult = <<>>

BatcherIdle == batcher = <<>> /\ emitted = <<>>

SinkIdle == IdsIdle /\ S3Idle /\ BuildIdle /\ MetricsIdle /\ BatcherIdle

GenInit ==
    /\ cfg \in Configs
    /\ pc = "build"
    /\ buildErr = "none"
    /\ n = 0
    /\ timer = NoTimer
    /\ ticks = 0
    /\ lines = <<>>
    /\ stream = <<>>
    /\ events = <<>>
    /\ now = 0
    /\ chan = <<>>
    /\ received = <<>>
    /\ rxOpen = TRUE
    /\ rxEnded = FALSE
    /\ outDropped = FALSE
    /\ shutdown = FALSE
    /\ result = "none"
    /\ startAt = 0
    /\ clock = 0
    /\ log_schema = DefaultSchema
    /\ workload = <<>>
    /\ done = 0
    /\ writer = <<>>
    /\ id_rnd_bytes = <<0, 0, 0, 0, 0, 0, 0, 0>>
    /\ id_seq_number = <<0, 0, 0, 0>>
    /\ atShutdown = NotYet
    /\ SinkIdle

\* GeneratorConfig::build
Build ==
    /\ pc = "build"
    /\ LET v == validate(cfg.format) IN
       IF v # "Ok" THEN pc' = "failed" /\ buildErr' = v
       ELSE IF ~DecoderBuilds(cfg.decoder)
            THEN pc' = "failed" /\ buildErr' = "DecoderBuild"
            ELSE pc' = "start" /\ buildErr' = "none"
    /\ UNCHANGED <<archVars, sinkVars, atShutdown>>
    /\ UNCHANGED <<cfg, n, timer, ticks, lines, stream, events, now, chan,
                   received, rxOpen, rxEnded, outDropped, shutdown, result,
                   startAt, clock>>

\* generator_source, up to the loop: the timer exists iff interval != 0.
Start ==
    /\ pc = "start"
    /\ timer' = IF cfg.interval # 0
                THEN [some |-> TRUE, deadline |-> clock]
                ELSE NoTimer
    /\ startAt' = clock
    /\ pc' = "loop"
    /\ UNCHANGED <<archVars, sinkVars, atShutdown>>
    /\ UNCHANGED <<cfg, buildErr, n, ticks, lines, stream, events, now, chan,
                   received, rxOpen, rxEnded, outDropped, shutdown, result,
                   clock>>


\* Mutant: the loop stops one iteration early.
LoopExit_OffByOne ==
    /\ pc = "loop"
    /\ n + 1 >= cfg.count
    /\ pc' = "done"
    /\ result' = "Ok"
    /\ outDropped' = TRUE
    /\ UNCHANGED <<archVars, sinkVars, atShutdown>>
    /\ UNCHANGED <<cfg, buildErr, n, timer, ticks, lines, stream, events, now,
                   chan, received, rxOpen, rxEnded, shutdown, startAt, clock>>

\* `for n in 0..count` is exhausted: return Ok and drop `out`.
LoopExit ==
    /\ pc = "loop"
    /\ n >= cfg.count
    /\ pc' = "done"
    /\ result' = "Ok"
    /\ outDropped' = TRUE
    /\ UNCHANGED <<archVars, sinkVars, atShutdown>>
    /\ UNCHANGED <<cfg, buildErr, n, timer, ticks, lines, stream, events, now,
                   chan, received, rxOpen, rxEnded, shutdown, startAt, clock>>


\* Mutant: a ready shutdown signal is ignored.
PollReady_Ignored ==
    /\ pc = "loop"
    /\ n < cfg.count
    /\ shutdown
    /\ pc' = IF timer.some THEN "tick" ELSE "generate"
    /\ UNCHANGED <<archVars, sinkVars, atShutdown>>
    /\ UNCHANGED <<cfg, buildErr, n, timer, ticks, lines, stream, events, now,
                   chan, received, rxOpen, rxEnded, outDropped, shutdown,
                   result, startAt, clock>>

\* futures::poll!(&mut shutdown) is Ready: break, return Ok.
PollReady ==
    /\ pc = "loop"
    /\ n < cfg.count
    /\ shutdown
    /\ pc' = "done"
    /\ result' = "Ok"
    /\ outDropped' = TRUE
    /\ UNCHANGED <<archVars, sinkVars, atShutdown>>
    /\ UNCHANGED <<cfg, buildErr, n, timer, ticks, lines, stream, events, now,
                   chan, received, rxOpen, rxEnded, shutdown, startAt, clock>>

\* futures::poll!(&mut shutdown) is Pending: go on to the timer, if any.
PollPending ==
    /\ pc = "loop"
    /\ n < cfg.count
    /\ ~shutdown
    /\ pc' = IF timer.some THEN "tick" ELSE "generate"
    /\ UNCHANGED <<archVars, sinkVars, atShutdown>>
    /\ UNCHANGED <<cfg, buildErr, n, timer, ticks, lines, stream, events, now,
                   chan, received, rxOpen, rxEnded, outDropped, shutdown,
                   result, startAt, clock>>


\* Mutant: the timer's deadline does not advance.
Tick_NoPeriod ==
    /\ pc = "tick"
    /\ clock >= timer.deadline
    /\ timer' = timer
    /\ ticks' = ticks + 1
    /\ pc' = "generate"
    /\ UNCHANGED <<archVars, sinkVars, atShutdown>>
    /\ UNCHANGED <<cfg, buildErr, n, lines, stream, events, now, chan,
                   received, rxOpen, rxEnded, outDropped, shutdown, result,
                   startAt, clock>>

\* interval.tick().await: completes once the deadline is reached; the next
\* deadline is one period after this one.
Tick ==
    /\ pc = "tick"
    /\ clock >= timer.deadline
    /\ timer' = [timer EXCEPT !.deadline = @ + cfg.interval]
    /\ ticks' = ticks + 1
    /\ pc' = "generate"
    /\ UNCHANGED <<archVars, sinkVars, atShutdown>>
    /\ UNCHANGED <<cfg, buildErr, n, lines, stream, events, now, chan,
                   received, rxOpen, rxEnded, outDropped, shutdown, result,
                   startAt, clock>>

\* format.generate_line(n) and FramedRead::new(line, decoder).  `choose` on
\* an empty list is None, and the unwrap panics.
Generate ==
    /\ pc = "generate"
    /\ IF generate_line(cfg.format, n) = {}
       THEN pc' = "panic" /\ UNCHANGED <<lines, stream>>
       ELSE \E line \in generate_line(cfg.format, n) :
               /\ lines' = Append(lines, line)
               /\ stream' = Decode(cfg.decoder, line)
               /\ pc' = "stream"
    /\ UNCHANGED <<archVars, sinkVars, atShutdown>>
    /\ UNCHANGED <<cfg, buildErr, n, timer, ticks, events, now, chan,
                   received, rxOpen, rxEnded, outDropped, shutdown, result,
                   startAt, clock>>


\* Mutant: the loop index does not advance.
StreamEnd_NoAdvance ==
    /\ pc = "stream"
    /\ stream = <<>>
    /\ n' = n
    /\ pc' = "loop"
    /\ UNCHANGED <<archVars, sinkVars, atShutdown>>
    /\ UNCHANGED <<cfg, buildErr, timer, ticks, lines, stream, events, now,
                   chan, received, rxOpen, rxEnded, outDropped, shutdown,
                   result, startAt, clock>>

\* stream.next().await is None: the line is done, next n.
StreamEnd ==
    /\ pc = "stream"
    /\ stream = <<>>
    /\ n' = n + 1
    /\ pc' = "loop"
    /\ UNCHANGED <<archVars, sinkVars, atShutdown>>
    /\ UNCHANGED <<cfg, buildErr, timer, ticks, lines, stream, events, now,
                   chan, received, rxOpen, rxEnded, outDropped, shutdown,
                   result, startAt, clock>>

\* stream.next().await is Some(Ok((events, _))): take Utc::now().
StreamOk ==
    /\ pc = "stream"
    /\ stream # <<>>
    /\ Head(stream).ok
    /\ now' = clock
    /\ events' = Head(stream).events
    /\ stream' = Tail(stream)
    /\ pc' = IF Head(stream).events = <<>> THEN "stream" ELSE "send"
    /\ UNCHANGED <<archVars, sinkVars, atShutdown>>
    /\ UNCHANGED <<cfg, buildErr, n, timer, ticks, lines, chan, received,
                   rxOpen, rxEnded, outDropped, shutdown, result, startAt,
                   clock>>

\* Mutant: an error that cannot continue ends the source with Err.
StreamErr_Terminates ==
    /\ pc = "stream"
    /\ stream # <<>>
    /\ ~Head(stream).ok
    /\ IF Head(stream).can_continue
       THEN /\ stream' = Tail(stream) /\ pc' = "stream"
            /\ UNCHANGED <<result, outDropped>>
       ELSE /\ stream' = <<>> /\ pc' = "done"
            /\ result' = "Err" /\ outDropped' = TRUE
    /\ UNCHANGED <<archVars, sinkVars, atShutdown>>
    /\ UNCHANGED <<cfg, buildErr, n, timer, ticks, lines, events, now, chan,
                   received, rxOpen, rxEnded, shutdown, startAt, clock>>

\* stream.next().await is Some(Err(error)): break unless it can continue.
StreamErr ==
    /\ pc = "stream"
    /\ stream # <<>>
    /\ ~Head(stream).ok
    /\ IF Head(stream).can_continue
       THEN stream' = Tail(stream) /\ pc' = "stream" /\ n' = n
       ELSE stream' = <<>> /\ pc' = "loop" /\ n' = n + 1
    /\ UNCHANGED <<archVars, sinkVars, atShutdown>>
    /\ UNCHANGED <<cfg, buildErr, timer, ticks, lines, events, now, chan,
                   received, rxOpen, rxEnded, outDropped, shutdown, result,
                   startAt, clock>>


\* Mutant: the two fields are inserted unconditionally.
Stamp_Overwrite(event, at) ==
    (DefaultSchema.source_type_key :> Bytes(GENERATOR))
    @@ (DefaultSchema.timestamp_key :> Timestamp(at)) @@ event

\* The event as it is handed to out.send: the two try_insert calls.
Stamp(event, at) ==
    TryInsert(TryInsert(event, DefaultSchema.source_type_key, Bytes(GENERATOR)),
              DefaultSchema.timestamp_key, Timestamp(at))

\* out.send(event).await succeeds: there is room in the channel.
SendOk ==
    /\ pc = "send"
    /\ rxOpen
    /\ Len(chan) < ChanCap
    /\ chan' = Append(chan, Stamp(Head(events), now))
    /\ events' = Tail(events)
    /\ pc' = IF Tail(events) = <<>> THEN "stream" ELSE "send"
    /\ UNCHANGED <<archVars, sinkVars, atShutdown>>
    /\ UNCHANGED <<cfg, buildErr, n, timer, ticks, lines, stream, now,
                   received, rxOpen, rxEnded, outDropped, shutdown, result,
                   startAt, clock>>


\* Mutant: a failed send is ignored and the event skipped.
SendClosed_Ignored ==
    /\ pc = "send"
    /\ ~rxOpen
    /\ events' = Tail(events)
    /\ pc' = IF Tail(events) = <<>> THEN "stream" ELSE "send"
    /\ UNCHANGED <<archVars, sinkVars, atShutdown>>
    /\ UNCHANGED <<cfg, buildErr, n, timer, ticks, lines, stream, now, chan,
                   received, rxOpen, rxEnded, outDropped, shutdown, result,
                   startAt, clock>>

\* out.send(event).await fails with ClosedError: `?` returns Err(()).
SendClosed ==
    /\ pc = "send"
    /\ ~rxOpen
    /\ pc' = "done"
    /\ result' = "Err"
    /\ outDropped' = TRUE
    /\ UNCHANGED <<archVars, sinkVars, atShutdown>>
    /\ UNCHANGED <<cfg, buildErr, n, timer, ticks, lines, stream, events, now,
                   chan, received, rxOpen, rxEnded, shutdown, startAt, clock>>

\* ---- the environment of the source
\* The shutdown signal fires (once).
Shutdown ==
    /\ ~shutdown
    /\ shutdown' = TRUE
    /\ UNCHANGED <<archVars, sinkVars, atShutdown>>
    /\ UNCHANGED <<cfg, pc, buildErr, n, timer, ticks, lines, stream, events,
                   now, chan, received, rxOpen, rxEnded, outDropped, result,
                   startAt, clock>>

\* The downstream takes one event from the channel.
Recv ==
    /\ rxOpen
    /\ chan # <<>>
    /\ received' = Append(received, Head(chan))
    /\ chan' = Tail(chan)
    /\ UNCHANGED <<archVars, sinkVars, atShutdown>>
    /\ UNCHANGED <<cfg, pc, buildErr, n, timer, ticks, lines, stream, events,
                   now, rxOpen, rxEnded, outDropped, shutdown, result,
                   startAt, clock>>

\* The downstream polls an empty channel whose sender is gone: end-of-stream.
RecvEnd ==
    /\ rxOpen
    /\ chan = <<>>
    /\ outDropped
    /\ ~rxEnded
    /\ rxEnded' = TRUE
    /\ UNCHANGED <<archVars, sinkVars, atShutdown>>
    /\ UNCHANGED <<cfg, pc, buildErr, n, timer, ticks, lines, stream, events,
                   now, chan, received, rxOpen, outDropped, shutdown, result,
                   startAt, clock>>

\* The downstream is closed: the receiver is dropped.
DropReceiver ==
    /\ rxOpen
    /\ ~rxEnded
    /\ rxOpen' = FALSE
    /\ UNCHANGED <<archVars, sinkVars, atShutdown>>
    /\ UNCHANGED <<cfg, pc, buildErr, n, timer, ticks, lines, stream, events,
                   now, chan, received, rxEnded, outDropped, shutdown, result,
                   startAt, clock>>

\* Time passes.
ClockTick ==
    /\ clock < MaxClock
    /\ clock' = clock + 1
    /\ UNCHANGED <<archVars, sinkVars, atShutdown>>
    /\ UNCHANGED <<cfg, pc, buildErr, n, timer, ticks, lines, stream, events,
                   now, chan, received, rxOpen, rxEnded, outDropped, shutdown,
                   result, startAt>>

Init == GenInit

Next ==
    \/ Build
    \/ Start
    \/ LoopExit
    \/ PollReady
    \/ PollPending
    \/ Tick
    \/ Generate
    \/ StreamEnd
    \/ StreamOk
    \/ StreamErr
    \/ SendOk
    \/ SendClosed
    \/ Shutdown
    \/ Recv
    \/ RecvEnd
    \/ DropReceiver
    \/ ClockTick

Spec == Init /\ [][Next]_vars

\* The shutdown signal fires, and what the source has done by then is
\* recorded: the lines generated, the events forwarded, and whether the
\* source is between the poll of a tick and its line ("committed"), between
\* the line and the end of its events ("busy"), or elsewhere.
ShutdownRecorded ==
    /\ ~shutdown
    /\ shutdown' = TRUE
    /\ atShutdown' = [lines |-> Len(lines),
                      forwarded |-> Len(received) + Len(chan),
                      stage |-> IF pc \in {"tick", "generate"} THEN "committed"
                                ELSE IF pc \in {"stream", "send"} THEN "busy"
                                ELSE "idle"]
    /\ UNCHANGED <<archVars, sinkVars>>
    /\ UNCHANGED <<cfg, pc, buildErr, n, timer, ticks, lines, stream, events,
                   now, chan, received, rxOpen, rxEnded, outDropped, result,
                   startAt, clock>>

NextRecorded ==
    \/ Build
    \/ Start
    \/ LoopExit
    \/ PollReady
    \/ PollPending
    \/ Tick
    \/ Generate
    \/ StreamEnd
    \/ StreamOk
    \/ StreamErr
    \/ SendOk
    \/ SendClosed
    \/ ShutdownRecorded
    \/ Recv
    \/ RecvEnd
    \/ DropReceiver
    \/ ClockTick

\* The source, with the moment of the shutdown signal recorded.
SpecShutdown == Init /\ [][NextRecorded]_vars

\* ---------------------------------------------------------------- archives
\* Ticks of the clock per millisecond: timestamps are finer than the
\* millisecond that `date` and `_id` keep.
TicksPerMs == 2

\* RESERVED_ATTRIBUTES
RESERVED_ATTRIBUTES ==
    {"_id", "date", "message", "host", "source", "service", "status", "tags",
     "trace_id", "span_id"}

\* LogEvent::insert on a top-level key.
Insert(log, key, value) ==
    [k \in DOMAIN log \cup {key} |-> IF k = key THEN value ELSE log[k]]

\* LogEvent::remove on a top-level key: the event without the key.
Remove(log, key) == [k \in DOMAIN log \ {key} |-> log[k]]

\* LogEvent::rename_key_flat
RenameKeyFlat(log, from, to) ==
    IF from # to /\ from \in DOMAIN log
    THEN Insert(Remove(log, from), to, log[from])
    ELSE log

RECURSIVE Pad(_, _)
\* Decimal digits of v, zero-padded to the given width.
Pad(v, width) ==
    IF width = 0 THEN <<>>
    ELSE Pad(v \div 10, width - 1) \o <<Digits[(v % 10) + 1]>>

\* DateTime::timestamp_millis
TimestampMillis(t) == t \div TicksPerMs

\* DateTime::to_rfc3339_opts(SecondsFormat::Millis, true), for instants of
\* the first minute of the epoch.
Rfc3339Millis(t) ==
    LET ms == TimestampMillis(t) IN
    <<"1970-01-01T00:00:">> \o Pad((ms \div 1000) % 60, 2) \o <<".">>
        \o Pad(ms % 1000, 3) \o <<"Z">>

RECURSIVE PutInt_LittleEndian(_, _)
\* Mutant: the integer is written least-significant byte first.
PutInt_LittleEndian(v, nbytes) ==
    IF nbytes = 0 THEN <<>>
    ELSE <<v % 256>> \o PutInt_LittleEndian(v \div 256, nbytes - 1)

RECURSIVE PutInt(_, _)
\* BufMut::put_int / put_u32: the nbytes low bytes of v, big-endian.
PutInt(v, nbytes) ==
    IF nbytes = 0 THEN <<>>
    ELSE PutInt(v \div 256, nbytes - 1) \o <<v % 256>>

RECURSIVE FetchAdd1(_)
\* AtomicU32::fetch_add(1): the successor of a big-endian u32, wrapping.
FetchAdd1(bytes) ==
    IF bytes = <<>> THEN <<>>
    ELSE LET k == Len(bytes) IN
         IF bytes[k] < 255
         THEN [bytes EXCEPT ![k] = @ + 1]
         ELSE FetchAdd1(SubSeq(bytes, 1, k - 1)) \o <<0>>

Base64Alphabet ==
    <<"A", "B", "C", "D", "E", "F", "G", "H", "I", "J", "K", "L", "M", "N",
      "O", "P", "Q", "R", "S", "T", "U", "V", "W", "X", "Y", "Z", "a", "b",
      "c", "d", "e", "f", "g", "h", "i", "j", "k", "l", "m", "n", "o", "p",
      "q", "r", "s", "t", "u", "v", "w", "x", "y", "z", "0", "1", "2", "3",
      "4", "5", "6", "7", "8", "9", "+", "/">>

RECURSIVE Base64Encode(_)
\* base64::encode: the standard alphabet, with padding.
Base64Encode(bytes) ==
    IF bytes = <<>> THEN <<>>
    ELSE LET b1 == bytes[1]
             b2 == IF Len(bytes) >= 2 THEN bytes[2] ELSE 0
             b3 == IF Len(bytes) >= 3 THEN bytes[3] ELSE 0
             c1 == Base64Alphabet[(b1 \div 4) + 1]
             c2 == Base64Alphabet[((b1 % 4) * 16 + (b2 \div 16)) + 1]
             c3 == Base64Alphabet[((b2 % 16) * 4 + (b3 \div 64)) + 1]
             c4 == Base64Alphabet[(b3 % 64) + 1]
         IN  IF Len(bytes) = 1 THEN <<c1, c2, "=", "=">>
             ELSE IF Len(bytes) = 2 THEN <<c1, c2, c3, "=">>
             ELSE <<c1, c2, c3, c4>> \o Base64Encode(SubSeq(bytes, 4, Len(bytes)))

\* Mutant: the id leaves the counter out.
LogIdBytes_NoSeq(at, rnd, seq) ==
    PutInt(TimestampMillis(at), 6) \o rnd \o <<0, 0, 0, 0>>

\* The 18 bytes of an id: 6 of the millisecond, the 8 random ones, 4 of the
\* counter.
LogIdBytes(at, rnd, seq) == PutInt(TimestampMillis(at), 6) \o rnd \o seq

\* DatadogArchivesEncoding::generate_log_id, for the counter value it fetched.
generate_log_id(at, rnd, seq) == Base64Encode(LogIdBytes(at, rnd, seq))

\* Mutant: `date` is always the current time.
encode_event_DateNow(event, schema, id, at) ==
    LET e1 == Insert(event, "_id", Bytes(id))
        e2 == Remove(e1, schema.timestamp_key)
        e3 == Insert(e2, "date", Bytes(Rfc3339Millis(at)))
        e4 == RenameKeyFlat(e3, schema.message_key, "message")
        e5 == RenameKeyFlat(e4, schema.host_key, "host")
        custom == DOMAIN e5 \ RESERVED_ATTRIBUTES
        attributes == [k \in custom |-> e5[k]]
        e6 == [k \in DOMAIN e5 \ custom |-> e5[k]]
    IN  Insert(e6, "attributes", <<"map", attributes>>)

\* Mutant: the message and host fields are not renamed.
encode_event_NoRename(event, schema, id, at) ==
    LET e1 == Insert(event, "_id", Bytes(id))
        timestamp == IF schema.timestamp_key \in DOMAIN e1
                     THEN e1[schema.timestamp_key]
                     ELSE Integer(TimestampMillis(at))
        e2 == Remove(e1, schema.timestamp_key)
        date == IF timestamp[1] = "timestamp"
                THEN Rfc3339Millis(timestamp[2])
                ELSE Rfc3339Millis(at)
        e5 == Insert(e2, "date", Bytes(date))
        custom == DOMAIN e5 \ RESERVED_ATTRIBUTES
        attributes == [k \in custom |-> e5[k]]
        e6 == [k \in DOMAIN e5 \ custom |-> e5[k]]
    IN  Insert(e6, "attributes", <<"map", attributes>>)

\* The body of the loop of encode_input, for one event: the event as it is
\* handed to the Ndjson encoder.
encode_event(event, schema, id, at) ==
    LET e1 == Insert(event, "_id", Bytes(id))
        timestamp == IF schema.timestamp_key \in DOMAIN e1
                     THEN e1[schema.timestamp_key]
                     ELSE Integer(TimestampMillis(at))
        e2 == Remove(e1, schema.timestamp_key)
        date == IF timestamp[1] = "timestamp"
                THEN Rfc3339Millis(timestamp[2])
                ELSE Rfc3339Millis(at)
        e3 == Insert(e2, "date", Bytes(date))
        e4 == RenameKeyFlat(e3, schema.message_key, "message")
        e5 == RenameKeyFlat(e4, schema.host_key, "host")
        custom == DOMAIN e5 \ RESERVED_ATTRIBUTES
        attributes == [k \in custom |-> e5[k]]
        e6 == [k \in DOMAIN e5 \ custom |-> e5[k]]
    IN  Insert(e6, "attributes", <<"map", attributes>>)

RECURSIVE encode_all(_, _, _, _, _)
\* The loop of encode_input: each event takes the next counter value.
encode_all(batch, schema, at, rnd, seq) ==
    IF batch = <<>> THEN <<>>
    ELSE <<encode_event(Head(batch), schema, generate_log_id(at, rnd, seq), at)>>
         \o encode_all(Tail(batch), schema, at, rnd, FetchAdd1(seq))

RECURSIVE AdvanceSeq(_, _)
\* The counter after k calls of generate_log_id.
AdvanceSeq(seq, k) == IF k = 0 THEN seq ELSE AdvanceSeq(FetchAdd1(seq), k - 1)

\* The log schemas of the model: the default one and renamed keys.
Schemas ==
    [timestamp_key : {"timestamp", "ts"}, message_key : {"message", "msg"},
     host_key : {"host", "hostname"}, source_type_key : {"source_type"}]

\* Top-level keys an event of the model may hold besides the timestamp key.
EventKeys ==
    {"_id", "date", "message", "host", "service", "timestamp", "ts", "msg",
     "hostname", "attributes"}

\* Values found in the timestamp field: two instants and a string.
TimestampValues ==
    {Timestamp(3), Timestamp(2005 * TicksPerMs + 1), Bytes(<<"2", "0", "2", "1">>)}

\* The log events of the model under a schema: every set of keys, each key
\* holding its own name, the timestamp key holding one of TimestampValues.
EventsOfSchema(schema) ==
    LET others == EventKeys \ {schema.timestamp_key} IN
    {[k \in K |-> Bytes(<<k>>)] : K \in SUBSET others}
    \cup {[k \in K \cup {schema.timestamp_key} |->
              IF k = schema.timestamp_key THEN v ELSE Bytes(<<k>>)] :
            K \in SUBSET others, v \in TimestampValues}

\* The event of tests::encodes_event.
TestEvent ==
    [k \in {"message", "service", "not_a_reserved_attribute", "tags",
            "timestamp"} |->
        IF k = "timestamp" THEN Timestamp(2005 * TicksPerMs + 1)
        ELSE Bytes(<<k>>)]

\* What the encoder is given: one batch of one event, or two batches.
Workloads(schema) ==
    {<<<<e>>>> : e \in EventsOfSchema(schema)}
    \cup {<< <<TestEvent, Msg(LineA)>>, <<TestEvent>> >>}

RndChoices == {<<0, 0, 0, 0, 0, 0, 0, 0>>, <<255, 1, 2, 3, 4, 5, 6, 7>>}

\* DatadogArchivesEncoding::default, and the batches to come.
ArchInit ==
    /\ log_schema \in Schemas
    /\ workload \in Workloads(log_schema)
    /\ done = 0
    /\ writer = <<>>
    /\ id_rnd_bytes \in RndChoices
    /\ id_seq_number = <<0, 0, 0, 0>>
    /\ clock = 0
    /\ cfg = LongConfig
    /\ pc = "idle"
    /\ buildErr = "none"
    /\ n = 0
    /\ timer = NoTimer
    /\ ticks = 0
    /\ lines = <<>>
    /\ stream = <<>>
    /\ events = <<>>
    /\ now = 0
    /\ chan = <<>>
    /\ received = <<>>
    /\ rxOpen = TRUE
    /\ rxEnded = FALSE
    /\ outDropped = FALSE
    /\ shutdown = FALSE
    /\ result = "none"
    /\ startAt = 0
    /\ atShutdown = NotYet
    /\ SinkIdle

\* DatadogArchivesEncoding::encode_input on the next batch.
EncodeInput ==
    /\ done < Len(workload)
    /\ LET batch == workload[done + 1] IN
       /\ writer' = writer \o encode_all(batch, log_schema, clock,
                                         id_rnd_bytes, id_seq_number)
       /\ id_seq_number' = AdvanceSeq(id_seq_number, Len(batch))
    /\ done' = done + 1
    /\ UNCHANGED <<log_schema, workload, id_rnd_bytes, clock>>
    /\ UNCHANGED <<genRest, sinkVars>>

ArchNext ==
    \/ EncodeInput
    \/ ClockTick

SpecArchives == ArchInit /\ [][ArchNext]_vars

\* ================================================================ claims
\* Events handed to the output so far, in order.
ForwardedEvents == received \o chan
Forwarded == Len(ForwardedEvents)

RECURSIVE EventsOf(_)
\* Number of events in the Ok items of a decoded stream.
EventsOf(items) ==
    IF items = <<>> THEN 0
    ELSE Len(Head(items).events) + EventsOf(Tail(items))

RECURSIVE EventsDecoded(_)
\* Number of events the chain decodes from a list of lines.
EventsDecoded(ls) ==
    IF ls = <<>> THEN 0
    ELSE EventsOf(Decode(cfg.decoder, Head(ls))) + EventsDecoded(Tail(ls))

MessageOf(event) == event[DefaultSchema.message_key][2]

\* The number in front of the first space of a message.
LeadingNumber(s) == ParseDigits(SubSeq(s, 1, IndexOf(s, " ") - 1), 0)

\* What follows the first space of a message.
AfterNumber(s) == SubSeq(s, IndexOf(s, " ") + 1, Len(s))

ConfiguredLines == {cfg.format.lines[i] : i \in 1..Len(cfg.format.lines)}

\* C1 (as stated): the number of events forwarded never exceeds count.
C1_EventsAtMostCount == Forwarded <= cfg.count

\* C1 (amended): the number of lines generated never exceeds count, and the
\* number of events forwarded never exceeds the number of events the chain
\* decodes from those lines; so it never exceeds count when the chain yields
\* at most one event per line.
C1_LinesAtMostCount ==
    /\ Len(lines) <= cfg.count
    /\ Forwarded <= EventsDecoded(lines)
    /\ (\A i \in 1..Len(lines) : EventsOf(Decode(cfg.decoder, lines[i])) <= 1)
          => Forwarded <= cfg.count

C1_Witness ==
    /\ pc = "done"
    /\ cfg.count = MaxCount
    /\ Len(lines) = cfg.count
    /\ Forwarded > cfg.count

\* C2: with the default chain, no shutdown and an open downstream, exactly
\* count events are forwarded, the source returns Ok and drops the output, and
\* the receiver sees end-of-stream after exactly count events; none for
\* count = 0.
C2_ExactlyCount ==
    (cfg.decoder = "bytes" /\ ~shutdown /\ rxOpen) =>
        /\ Forwarded <= cfg.count
        /\ pc = "done" => (result = "Ok" /\ outDropped /\ Forwarded = cfg.count)
        /\ outDropped => pc = "done"
        /\ rxEnded => (Len(received) = cfg.count /\ chan = <<>>)
        /\ cfg.count = 0 => Forwarded = 0

C2_Witness ==
    /\ cfg.decoder = "bytes"
    /\ ~shutdown
    /\ rxEnded
    /\ cfg.count = MaxCount
    /\ Len(received) = MaxCount

\* C3: when the shutdown signal is ready at the poll that begins tick n, the
\* source generates no line and forwards no event any more, and returns Ok.
C3_ShutdownStops ==
    [][/\ (pc = "loop" /\ n < cfg.count /\ shutdown) =>
            /\ lines' = lines
            /\ Forwarded' = Forwarded
            /\ pc' \in {"loop", "done"}
            /\ pc' = "done" => result' = "Ok"
       /\ pc = "done" =>
            /\ pc' = "done"
            /\ result' = result
            /\ lines' = lines
            /\ Forwarded' = Forwarded]_vars

C3_Witness ==
    /\ pc = "done"
    /\ result = "Ok"
    /\ shutdown
    /\ n >= 1
    /\ n < cfg.count
    /\ Len(lines) = n

\* C4: when a send fails because the downstream is closed, the source returns
\* Err at once: no further event is forwarded and no further line generated.
C4_ClosedTerminates ==
    [][/\ (pc = "send" /\ ~rxOpen) =>
            /\ lines' = lines
            /\ Forwarded' = Forwarded
            /\ pc' \in {"send", "done"}
            /\ pc' = "send" => events' = events
            /\ pc' = "done" => result' = "Err"
       /\ result = "Err" =>
            /\ pc' = "done"
            /\ result' = "Err"
            /\ lines' = lines
            /\ Forwarded' = Forwarded]_vars

C4_Witness ==
    /\ result = "Err"
    /\ Len(events) = 2
    /\ stream # <<>>
    /\ n + 1 < cfg.count

\* C5: with Shuffle and sequence, the line of tick n is the decimal n, a space
\* and a configured line, so with the default chain the forwarded messages
\* carry the numbers 0, 1, 2, ... in order, up to count - 1 when the source
\* ran to its end; without sequence each line is a configured line.
C5_Sequence ==
    cfg.format.kind = "Shuffle" =>
        /\ \A i \in 1..Len(lines) :
              IF cfg.format.sequence
              THEN \E l \in ConfiguredLines :
                      lines[i] = ToDecimal(i - 1) \o <<" ">> \o l
              ELSE lines[i] \in ConfiguredLines
        /\ cfg.decoder = "bytes" =>
              \A i \in 1..Forwarded :
                 LET m == MessageOf(ForwardedEvents[i]) IN
                 IF cfg.format.sequence
                 THEN /\ LeadingNumber(m) = i - 1
                      /\ AfterNumber(m) \in ConfiguredLines
                 ELSE m \in ConfiguredLines
        /\ (cfg.decoder = "bytes" /\ pc = "done" /\ ~shutdown /\ rxOpen) =>
              Forwarded = cfg.count

C5_Witness ==
    /\ cfg = LongConfig
    /\ rxEnded
    /\ Len(received) = LongCount
    /\ LeadingNumber(MessageOf(received[LongCount])) = LongCount - 1

\* C6: build fails with ShuffleGeneratorItemsEmpty exactly for Shuffle with
\* an empty list; the source never runs with such a format and
\* shuffle_generate never sees an empty list.
C6_Validation ==
    LET emptyShuffle == cfg.format.kind = "Shuffle" /\ cfg.format.lines = <<>>
    IN  /\ pc # "build" =>
              (buildErr = "ShuffleGeneratorItemsEmpty" <=> emptyShuffle)
        /\ emptyShuffle => pc \in {"build", "failed"}
        /\ pc = "failed" <=> buildErr # "none"
        /\ pc # "panic"

C6_Witness ==
    /\ pc = "failed"
    /\ buildErr = "ShuffleGeneratorItemsEmpty"
    /\ cfg.decoder = "bytes"

\* C7: every forwarded event has source_type and timestamp; each is set (to
\* "generator", to the current time) only when the decoded event lacks it,
\* and every field the decoder produced is forwarded unchanged.
C7_Stamped ==
    /\ [](\A i \in 1..Forwarded :
            /\ DefaultSchema.source_type_key \in DOMAIN ForwardedEvents[i]
            /\ DefaultSchema.timestamp_key \in DOMAIN ForwardedEvents[i])
    /\ [][Len(chan') > Len(chan) =>
            LET d == Head(events)
                f == chan'[Len(chan')]
                st == DefaultSchema.source_type_key
                ts == DefaultSchema.timestamp_key
            IN  /\ DOMAIN f = DOMAIN d \cup {st, ts}
                /\ \A k \in DOMAIN d : f[k] = d[k]
                /\ st \notin DOMAIN d => f[st] = Bytes(GENERATOR)
                /\ ts \notin DOMAIN d => f[ts] = Timestamp(now)]_vars

C7_Witness ==
    /\ \E i \in 1..Len(received) :
          /\ received[i]["source_type"] = Bytes(SYSLOG)
          /\ received[i]["timestamp"] = Timestamp(clock)
    /\ \E i \in 1..Len(received) :
          /\ received[i]["source_type"] = Bytes(GENERATOR)
          /\ received[i]["timestamp"] = Timestamp(-1)

\* C8: with interval > 0 one tick of the timer is awaited before each line,
\* so the line of tick n is generated after n + 1 ticks and N lines take at
\* least N - 1 periods; with interval = 0 there is no timer and no tick.
C8_Pacing ==
    pc \notin {"build", "start", "failed"} =>
        /\ cfg.interval > 0 =>
              /\ timer.some
              /\ ticks = IF pc = "generate" THEN Len(lines) + 1 ELSE Len(lines)
              /\ Len(lines) >= 1 =>
                    clock - startAt >= (Len(lines) - 1) * cfg.interval
        /\ cfg.interval = 0 => (~timer.some /\ ticks = 0 /\ pc # "tick")

C8_Witness ==
    /\ cfg.interval = 2
    /\ pc = "done"
    /\ Len(lines) = MaxCount
    /\ ticks = MaxCount
    /\ clock - startAt = (MaxCount - 1) * 2

RECURSIVE Flatten(_)
Flatten(batches) ==
    IF batches = <<>> THEN <<>> ELSE Head(batches) \o Flatten(Tail(batches))

\* The event that the i-th written object was encoded from.
InputOf(i) == Flatten(workload)[i]

AttributesOf(object) == object["attributes"][2]

\* C9 (as stated): the top-level keys of an encoded object are exactly the
\* reserved keys present in the event plus `attributes`, every non-reserved
\* key of the event is inside `attributes`, and no key is in both places.
C9_ReservedPlusAttributes ==
    \A i \in 1..Len(writer) :
       LET e == InputOf(i)
           o == writer[i]
       IN  /\ DOMAIN o = (DOMAIN e \cap RESERVED_ATTRIBUTES) \cup {"attributes"}
           /\ (DOMAIN e \ RESERVED_ATTRIBUTES) \subseteq DOMAIN AttributesOf(o)
           /\ DOMAIN o \cap DOMAIN AttributesOf(o) = {}

\* C9 (amended): the top-level keys are exactly `_id`, `date`, `attributes`
\* and the reserved keys present in the event once its message and host
\* fields are renamed to `message` and `host`; every other key of the event
\* but the timestamp key is inside `attributes` with its value; and no key
\* but `attributes` itself is in both places.
C9_NormalisedKeys ==
    \A i \in 1..Len(writer) :
       LET e == InputOf(i)
           o == writer[i]
           mk == log_schema.message_key
           hk == log_schema.host_key
           E == DOMAIN e \ {log_schema.timestamp_key}
           message == IF "message" \in E \/ mk \in E THEN {"message"} ELSE {}
           host == IF "host" \in E \/ hk \in E THEN {"host"} ELSE {}
           kept == (E \cap RESERVED_ATTRIBUTES) \ {mk, hk, "_id", "date"}
           moved == (E \ RESERVED_ATTRIBUTES) \ {mk, hk}
       IN  /\ DOMAIN o = {"_id", "date", "attributes"} \cup message \cup host
                            \cup kept
           /\ \A k \in kept \ {"message", "host"} : o[k] = e[k]
           /\ mk \in E => o["message"] = e[mk]
           /\ hk \in E => o["host"] = e[hk]
           /\ o["attributes"][1] = "map"
           /\ DOMAIN AttributesOf(o) = moved
           /\ \A k \in moved : AttributesOf(o)[k] = e[k]
           /\ DOMAIN o \cap DOMAIN AttributesOf(o) \subseteq {"attributes"}

C9_Witness ==
    /\ done = 1
    /\ Len(writer) = 1
    /\ log_schema.message_key = "msg"
    /\ log_schema.host_key = "host"
    /\ DOMAIN workload[1][1] =
          {"msg", "service", "attributes", "hostname", log_schema.timestamp_key}
    /\ DOMAIN writer[1] = {"_id", "date", "message", "service", "attributes"}
    /\ DOMAIN AttributesOf(writer[1]) = {"attributes", "hostname"}

LineAtShutdown ==
    LET k == IF atShutdown.stage = "committed" THEN atShutdown.lines + 1
             ELSE IF atShutdown.stage = "busy" THEN atShutdown.lines
             ELSE 0
    IN  IF k >= 1 /\ k <= Len(lines) THEN <<lines[k]>> ELSE <<>>

\* C20: shutdown is observed only at the poll that begins a tick.  Once the
\* signal has fired, the source generates a line only if the poll of that
\* tick had already passed (it was waiting on the timer or about to
\* generate), at most one, and every event forwarded afterwards is an event
\* of that line or of the line it was already streaming or sending; no other
\* tick is started.
C20_OneFurtherLine ==
    shutdown =>
        /\ Len(lines) <= atShutdown.lines + 1
        /\ atShutdown.stage # "committed" => Len(lines) = atShutdown.lines
        /\ Forwarded - atShutdown.forwarded <= EventsDecoded(LineAtShutdown)
        /\ pc \in {"tick", "generate"} =>
               /\ atShutdown.stage = "committed"
               /\ Len(lines) = atShutdown.lines

\* The signal fired after the poll of a tick and before its line; the line
\* was generated and forwarded, and the source then stopped before its
\* count.
C20_Witness ==
    /\ shutdown
    /\ atShutdown.stage = "committed"
    /\ Len(lines) = atShutdown.lines + 1
    /\ Forwarded > atShutdown.forwarded
    /\ pc = "done"
    /\ result = "Ok"
    /\ Len(lines) < cfg.count

\* ---------------------------------------------------------------- ids
\* The generator is not running.
GenIdle ==
    /\ cfg = LongConfig
    /\ pc = "idle"
    /\ buildErr = "none"
    /\ n = 0
    /\ timer = NoTimer
    /\ ticks = 0
    /\ lines = <<>>
    /\ stream = <<>>
    /\ events = <<>>
    /\ now = 0
    /\ chan = <<>>
    /\ received = <<>>
    /\ rxOpen = TRUE
    /\ rxEnded = FALSE
    /\ outDropped = FALSE
    /\ shutdown = FALSE
    /\ result = "none"
    /\ startAt = 0
    /\ atShutdown = NotYet

\* No batch is handed to encode_input.
NoWorkload ==
    /\ log_schema = DefaultSchema
    /\ workload = <<>>
    /\ done = 0
    /\ writer = <<>>

\* The tasks that encode through the one encoder of a sink.
Tasks == {1, 2}

\* Calls of generate_log_id that are started in a run.
MaxCalls == 3

\* The clock when the observation starts: the epoch, or a time whose
\* millisecond fills four bytes.
ClockStarts == {0, 1700000000}

\* The counter when the observation starts: a new encoder, or one that has
\* issued 2^32 - 2 ids already.
CounterStarts == {<<0, 0, 0, 0>>, <<255, 255, 255, 254>>}

IdleTask == [pc |-> "idle", now |-> 0, seq |-> <<>>]

\* Calls of generate_log_id started so far.
Started == Len(issued) + Cardinality({t \in Tasks : tasks[t].pc # "idle"})

IdInit ==
    /\ GenIdle
    /\ NoWorkload
    /\ clock \in ClockStarts
    /\ id_rnd_bytes \in RndChoices
    /\ id_seq_number \in CounterStarts
    /\ tasks = [t \in Tasks |-> IdleTask]
    /\ issued = <<>>
    /\ S3Idle /\ BuildIdle /\ MetricsIdle /\ BatcherIdle

\* generate_log_id, `let now = Utc::now()`
IdNow(t) ==
    /\ tasks[t].pc = "idle"
    /\ Started < MaxCalls
    /\ tasks' = [tasks EXCEPT ![t] = [pc |-> "fetch", now |-> clock, seq |-> <<>>]]
    /\ UNCHANGED <<issued, id_seq_number, clock>>
    /\ UNCHANGED <<genRest, log_schema, workload, done, writer, id_rnd_bytes,
                   s3Vars, buildVars, metricsVars, batcherVars>>

\* Mutant: the counter is loaded and stored in two steps.
IdFetchAdd_LoadStore(t) ==
    /\ tasks[t].pc = "fetch"
    /\ IF tasks[t].seq = <<>>
       THEN /\ tasks' = [tasks EXCEPT ![t].seq = id_seq_number]
            /\ UNCHANGED id_seq_number
       ELSE /\ id_seq_number' = FetchAdd1(tasks[t].seq)
            /\ tasks' = [tasks EXCEPT ![t].pc = "encode"]
    /\ UNCHANGED <<issued, clock>>
    /\ UNCHANGED <<genRest, log_schema, workload, done, writer, id_rnd_bytes,
                   s3Vars, buildVars, metricsVars, batcherVars>>

\* generate_log_id, `self.id_seq_number.fetch_add(1, Ordering::Relaxed)`:
\* one atomic step.
IdFetchAdd(t) ==
    /\ tasks[t].pc = "fetch"
    /\ tasks' = [tasks EXCEPT ![t].pc = "encode", ![t].seq = id_seq_number]
    /\ id_seq_number' = FetchAdd1(id_seq_number)
    /\ UNCHANGED <<issued, clock>>
    /\ UNCHANGED <<genRest, log_schema, workload, done, writer, id_rnd_bytes,
                   s3Vars, buildVars, metricsVars, batcherVars>>

\* generate_log_id, `base64::encode(id.freeze())`
IdReturn(t) ==
    /\ tasks[t].pc = "encode"
    /\ issued' = Append(issued,
                        [at |-> tasks[t].now, seq |-> tasks[t].seq,
                         id |-> generate_log_id(tasks[t].now, id_rnd_bytes,
                                                tasks[t].seq)])
    /\ tasks' = [tasks EXCEPT ![t] = IdleTask]
    /\ UNCHANGED <<id_seq_number, clock>>
    /\ UNCHANGED <<genRest, log_schema, workload, done, writer, id_rnd_bytes,
                   s3Vars, buildVars, metricsVars, batcherVars>>

\* Time passes.
IdClockTick ==
    /\ \E s \in ClockStarts : s <= clock /\ clock < s + MaxClock
    /\ clock' = clock + 1
    /\ UNCHANGED <<tasks, issued, id_seq_number>>
    /\ UNCHANGED <<genRest, log_schema, workload, done, writer, id_rnd_bytes,
                   s3Vars, buildVars, metricsVars, batcherVars>>

IdNext ==
    \/ \E t \in Tasks : IdNow(t)
    \/ \E t \in Tasks : IdFetchAdd(t)
    \/ \E t \in Tasks : IdReturn(t)
    \/ IdClockTick

SpecIds == IdInit /\ [][IdNext]_vars

\* ---- the ids
\* The index of a character in the base64 alphabet, from 0.
Base64Index(c) == (CHOOSE i \in 1..64 : Base64Alphabet[i] = c) - 1

RECURSIVE Base64Decode(_)
\* base64::decode: the bytes of a padded text in the standard alphabet.
Base64Decode(text) ==
    IF Len(text) < 4 THEN <<>>
    ELSE LET i1 == Base64Index(text[1])
             i2 == Base64Index(text[2])
             i3 == IF text[3] = "=" THEN 0 ELSE Base64Index(text[3])
             i4 == IF text[4] = "=" THEN 0 ELSE Base64Index(text[4])
             b1 == i1 * 4 + (i2 \div 16)
             b2 == (i2 % 16) * 16 + (i3 \div 4)
             b3 == (i3 % 4) * 64 + i4
         IN  IF text[3] = "=" THEN <<b1>>
             ELSE IF text[4] = "=" THEN <<b1, b2>>
             ELSE <<b1, b2, b3>> \o Base64Decode(SubSeq(text, 5, Len(text)))

\* The byte of weight 256^e of a number below 2^31.
ByteOfWeight(v, e) == IF e >= 4 THEN 0 ELSE (v \div (256 ^ e)) % 256

\* The successor of a u32 given by its four big-endian bytes, computed on its
\* two 16-bit halves: 2^32 - 1 is followed by 0.
NextU32(bytes) ==
    LET hi == bytes[1] * 256 + bytes[2]
        lo == bytes[3] * 256 + bytes[4]
        hi2 == IF lo = 65535 THEN (hi + 1) % 65536 ELSE hi
        lo2 == IF lo = 65535 THEN 0 ELSE lo + 1
    IN  <<hi2 \div 256, hi2 % 256, lo2 \div 256, lo2 % 256>>

\* C11: the ids one encoder has issued are pairwise different, whether they
\* fall in the same millisecond (the runs are shorter than 2^32 calls) or in
\* different ones.
C11_IdsUnique ==
    \A i, j \in DOMAIN issued :
        i # j => issued[i].id # issued[j].id

\* Three ids, two of them of the same millisecond and two of different
\* milliseconds, issued while the counter wrapped.
C11_Witness ==
    /\ Len(issued) = 3
    /\ \E i, j \in DOMAIN issued :
           /\ i # j
           /\ TimestampMillis(issued[i].at) = TimestampMillis(issued[j].at)
    /\ \E i, j \in DOMAIN issued :
           TimestampMillis(issued[i].at) # TimestampMillis(issued[j].at)
    /\ \E i \in DOMAIN issued : issued[i].seq = <<0, 0, 0, 0>>
    /\ \E i \in DOMAIN issued : issued[i].seq = <<255, 255, 255, 255>>

\* C12: every id decodes to 18 bytes: the millisecond of its generation in
\* the first six, big-endian; the encoder's eight random bytes, the same for
\* every id; the four big-endian bytes of the counter value the call fetched.
\* Every fetch leaves the counter at the successor of the value fetched,
\* which is 0 after 2^32 - 1.
C12_IdLayout ==
    /\ [](\A i \in DOMAIN issued :
             LET bytes == Base64Decode(issued[i].id) IN
             /\ Len(bytes) = 18
             /\ \A k \in 1..6 :
                    bytes[k] = ByteOfWeight(TimestampMillis(issued[i].at), 6 - k)
             /\ SubSeq(bytes, 7, 14) = id_rnd_bytes
             /\ SubSeq(bytes, 15, 18) = issued[i].seq)
    /\ [][/\ id_rnd_bytes' = id_rnd_bytes
          /\ \A t \in Tasks :
                 (tasks[t].pc = "fetch" /\ tasks'[t].pc = "encode") =>
                     /\ tasks'[t].seq = id_seq_number
                     /\ id_seq_number' = NextU32(id_seq_number)
          /\ id_seq_number' # id_seq_number =>
                 \E t \in Tasks : tasks[t].pc = "fetch" /\ tasks'[t].pc = "encode"
         ]_vars

\* An id of a millisecond that fills four bytes, with the random bytes that
\* are not all zero, issued for the counter value 0 the wrap produced.
C12_Witness ==
    /\ id_seq_number = <<0, 0, 0, 1>>
    /\ id_rnd_bytes = <<255, 1, 2, 3, 4, 5, 6, 7>>
    /\ \E i \in DOMAIN issued :
           /\ issued[i].seq = <<0, 0, 0, 0>>
           /\ TimestampMillis(issued[i].at) > 16777216
    /\ \E i \in DOMAIN issued : issued[i].seq = <<255, 255, 255, 255>>

\* The counter values calls have obtained so far.
Obtained ==
    {issued[i].seq : i \in DOMAIN issued}
        \cup {tasks[t].seq : t \in {u \in Tasks : tasks[u].pc = "encode"}}

\* The number of calls that have fetched a counter value.
Fetches ==
    Len(issued) + Cardinality({t \in Tasks : tasks[t].pc = "encode"})

\* C13: under every interleaving of the tasks no increment is lost: after k
\* fetches the counter is k steps after its start, and the k calls have
\* obtained the k different values in between.
C13_NoLostIncrement ==
    \E start \in CounterStarts :
        /\ id_seq_number = AdvanceSeq(start, Fetches)
        /\ Obtained = {AdvanceSeq(start, k) : k \in 0..(Fetches - 1)}
        /\ Cardinality(Obtained) = Fetches

\* Both tasks are inside generate_log_id between the fetch and the return,
\* after an earlier call has returned.
C13_Witness ==
    /\ \A t \in Tasks : tasks[t].pc = "encode"
    /\ Len(issued) = 1
    /\ tasks[1].now > tasks[2].now

\* ---------------------------------------------------------------- requests
Audit == <<"a", "u", "d", "i", "t">>

\* The key prefixes of the configurations: none, "audit", and "logs/" with
\* the trailing slash the configurations of the tests have.
KeyPrefixes ==
    {[some |-> FALSE, value |-> <<>>],
     [some |-> TRUE, value |-> Audit],
     [some |-> TRUE, value |-> <<"l", "o", "g", "s", "/">>]}

Hour16 ==
    <<"/", "d", "t", "=", "2", "0", "2", "1", "0", "8", "2", "3", "/", "h",
      "o", "u", "r", "=", "1", "6", "/">>

\* Keys the partitioner renders from KEY_TEMPLATE.
PartitionKeys == {Hour16, [Hour16 EXCEPT ![20] = "7"]}

\* Uuid::new_v4().to_string(): 36 characters, hyphenated.
Uuids ==
    {[i \in 1..36 |-> IF i \in {9, 14, 19, 24} THEN "-"
                      ELSE IF i = 15 THEN "4"
                      ELSE IF i = 20 THEN "a"
                      ELSE c] : c \in {"0", "f"}}

NoOptions ==
    [acl |-> "None", grant_full_control |-> "None", grant_read |-> "None",
     grant_read_acp |-> "None", grant_write_acp |-> "None",
     server_side_encryption |-> "None", ssekms_key_id |-> "None",
     storage_class |-> "None", tags |-> "None",
     content_encoding |-> "None", content_type |-> "None"]

\* S3Options of the configurations: the default, and one with every option set.
OptionSets ==
    {NoOptions,
     [acl |-> "private", grant_full_control |-> "id=1", grant_read |-> "id=2",
      grant_read_acp |-> "id=3", grant_write_acp |-> "id=4",
      server_side_encryption |-> "aws:kms", ssekms_key_id |-> "key",
      storage_class |-> "StandardIa", tags |-> "team=a",
      content_encoding |-> "identity", content_type |-> "text/plain"]}

\* An event with the finalizers attached to it.
Finalized(log, finalizers) == [log |-> log, finalizers |-> finalizers]

\* The event lists of the batches: one event, or two; an event carries no,
\* one or two finalizers, and no finalizer is attached to two events.
EventLists ==
    {<<Finalized(Msg(LineA), <<1>>)>>,
     <<Finalized(Msg(LineA), <<1>>), Finalized(Msg(LineB), <<2, 3>>)>>,
     <<Finalized(Msg(LineB), <<>>), Finalized(Msg(LineA), <<4>>)>>}

\* The compressed payloads handed to build_request.
Payloads == {<<>>, <<31, 139, 8>>}

\* Requests built in a run.
MaxRequests == 2

RECURSIVE Replace(_, _, _)
\* str::replace: the non-overlapping matches of `from`, found from the left,
\* are replaced by `to`.
Replace(s, from, to) ==
    IF Len(s) < Len(from) THEN s
    ELSE IF SubSeq(s, 1, Len(from)) = from
    THEN to \o Replace(SubSeq(s, Len(from) + 1, Len(s)), from, to)
    ELSE <<Head(s)>> \o Replace(Tail(s), from, to)

RECURSIVE take_finalizers(_)
\* Finalizable::take_finalizers of Vec<Event>: the finalizers leave the
\* events and are merged in the order of the events.
take_finalizers(list) ==
    IF list = <<>> THEN [finalizers |-> <<>>, events |-> <<>>]
    ELSE LET rest == take_finalizers(Tail(list)) IN
         [finalizers |-> Head(list).finalizers \o rest.finalizers,
          events |-> <<Finalized(Head(list).log, <<>>)>> \o rest.events]

RECURSIVE size_of(_)
\* ByteSizeOf::size_of of Vec<Event>: the sum over the events.
size_of(list) ==
    IF list = <<>> THEN 0
    ELSE 8 * Cardinality(DOMAIN Head(list).log) + size_of(Tail(list))

\* Mutant: the finalizers stay on the events.
split_input_NoTake(input) ==
    [metadata |-> [partition_key |-> input.partition_key,
                   count |-> Len(input.events),
                   byte_size |-> size_of(input.events),
                   finalizers |-> <<>>],
     events |-> input.events]

\* DatadogS3RequestBuilder::split_input
split_input(input) ==
    LET taken == take_finalizers(input.events) IN
    [metadata |-> [partition_key |-> input.partition_key,
                   count |-> Len(taken.events),
                   byte_size |-> size_of(taken.events),
                   finalizers |-> taken.finalizers],
     events |-> taken.events]

\* Mutant: the request's metadata is made anew and the finalizers are left
\* behind.
build_request_DropsFinalizers(self, metadata, payload, filename) ==
    [body |-> payload,
     bucket |-> self.bucket,
     metadata |->
         [partition_key |->
              Replace((IF self.key_prefix.some THEN self.key_prefix.value
                       ELSE <<>>)
                          \o <<"/">> \o metadata.partition_key \o filename
                          \o <<".", "j", "s", "o", "n", ".", "g", "z">>,
                      <<"/", "/">>, <<"/">>),
          count |-> metadata.count,
          byte_size |-> metadata.byte_size,
          finalizers |-> <<>>],
     content_encoding |-> "gzip",
     options |-> [self.config.options EXCEPT !.content_encoding = "None",
                                             !.content_type = "None"]]

\* DatadogS3RequestBuilder::build_request, for the uuid it draws.
build_request(self, metadata, payload, filename) ==
    [body |-> payload,
     bucket |-> self.bucket,
     metadata |->
         [metadata EXCEPT !.partition_key =
             Replace((IF self.key_prefix.some THEN self.key_prefix.value
                      ELSE <<>>)
                         \o <<"/">> \o metadata.partition_key \o filename
                         \o <<".", "j", "s", "o", "n", ".", "g", "z">>,
                     <<"/", "/">>, <<"/">>)],
     content_encoding |-> "gzip",
     options |-> [self.config.options EXCEPT !.content_encoding = "None",
                                             !.content_type = "None"]]

\* DatadogS3RequestBuilder::new
S3Init ==
    /\ GenIdle
    /\ NoWorkload
    /\ clock = 0
    /\ id_rnd_bytes \in RndChoices
    /\ id_seq_number = <<0, 0, 0, 0>>
    /\ builder \in [bucket : {<<"d", "d", "-", "l", "o", "g", "s">>},
                    key_prefix : KeyPrefixes,
                    config : [options : OptionSets]]
    /\ batchIn = <<>>
    /\ splitOut = <<>>
    /\ payloadIn = <<>>
    /\ request = <<>>
    /\ IdsIdle /\ BuildIdle /\ MetricsIdle /\ BatcherIdle

\* The batcher hands over the next batch.
S3Input ==
    /\ batchIn = <<>>
    /\ splitOut = <<>>
    /\ Len(request) < MaxRequests
    /\ \E key \in PartitionKeys, list \in EventLists :
           batchIn' = [partition_key |-> key, events |-> list]
    /\ UNCHANGED <<builder, splitOut, payloadIn, request>>
    /\ UNCHANGED <<genVars, archVars, idVars, buildVars, metricsVars,
                   batcherVars>>

SplitInput ==
    /\ batchIn # <<>>
    /\ splitOut' = split_input(batchIn)
    /\ batchIn' = <<>>
    /\ UNCHANGED <<builder, payloadIn, request>>
    /\ UNCHANGED <<genVars, archVars, idVars, buildVars, metricsVars,
                   batcherVars>>

\* The events split_input returned are encoded and compressed; the bytes
\* are the payload of the request to build.
EncodeEvents ==
    /\ splitOut # <<>>
    /\ payloadIn = <<>>
    /\ \E payload \in Payloads : payloadIn' = [bytes |-> payload]
    /\ UNCHANGED <<builder, batchIn, splitOut, request>>
    /\ UNCHANGED <<genVars, archVars, idVars, buildVars, metricsVars,
                   batcherVars>>

BuildRequest ==
    /\ splitOut # <<>>
    /\ payloadIn # <<>>
    /\ \E filename \in Uuids :
           request' = Append(request, build_request(builder, splitOut.metadata,
                                                    payloadIn.bytes, filename))
    /\ splitOut' = <<>>
    /\ payloadIn' = <<>>
    /\ UNCHANGED <<builder, batchIn>>
    /\ UNCHANGED <<genVars, archVars, idVars, buildVars, metricsVars,
                   batcherVars>>

S3Next ==
    \/ S3Input
    \/ SplitInput
    \/ EncodeEvents
    \/ BuildRequest

SpecS3 == S3Init /\ [][S3Next]_vars

\* ---- the requests
\* C14 (as stated): the key of every request has no "//" in it, and with the
\* key prefix "audit" it is the prefix, the partition key, a uuid of 36
\* characters and ".json.gz".
C14_NoDoubleSlash ==
    \A r \in DOMAIN request :
        LET key == request[r].metadata.partition_key IN
        /\ \A i \in 1..(Len(key) - 1) : ~(key[i] = "/" /\ key[i + 1] = "/")
        /\ (builder.key_prefix.some /\ builder.key_prefix.value = Audit) =>
               \E p \in PartitionKeys, u \in Uuids :
                   /\ Len(u) = 36
                   /\ key = Audit \o p \o u
                                  \o <<".", "j", "s", "o", "n", ".", "g", "z">>

\* The finalizers attached to the events of a list.
FinalizersOf(list) ==
    UNION {{list[i].finalizers[k] : k \in DOMAIN list[i].finalizers} :
               i \in DOMAIN list}

\* C17: split_input returns the events of its input in the same order and
\* without a finalizer on any of them; the metadata holds every finalizer
\* of the input exactly once and nothing else, the number of events, and
\* the partition key of the input.
C17_SplitMoves ==
    [][(batchIn # <<>> /\ splitOut' # <<>>) =>
           LET meta == splitOut'.metadata
               out == splitOut'.events
           IN  /\ Len(out) = Len(batchIn.events)
               /\ \A i \in DOMAIN out :
                      /\ out[i].finalizers = <<>>
                      /\ out[i].log = batchIn.events[i].log
               /\ \A f \in FinalizersOf(batchIn.events) :
                      Cardinality({k \in DOMAIN meta.finalizers :
                                       meta.finalizers[k] = f}) = 1
               /\ \A k \in DOMAIN meta.finalizers :
                      meta.finalizers[k] \in FinalizersOf(batchIn.events)
               /\ meta.count = Len(batchIn.events)
               /\ meta.partition_key = batchIn.partition_key
      ]_vars

\* A batch of two events with three finalizers has been split.
C17_Witness ==
    /\ splitOut # <<>>
    /\ Len(splitOut.events) = 2
    /\ Len(splitOut.metadata.finalizers) = 3
    /\ splitOut.metadata.count = 2

\* ---------------------------------------------------------------- build
\* The configurations of the Archives sink: the service named, the aws_s3
\* section (absent, or with its storage class, "None" when unset), and
\* whether create_service and build_healthcheck, which this file only
\* calls, succeed.
ArchiveConfigs ==
    [service : {"aws_s3", "gcs", ""},
     aws_s3 : {[some |-> FALSE, storage_class |-> "None"]}
                  \cup [some : {TRUE},
                        storage_class : {"None", "Standard", "StandardIa",
                                         "IntelligentTiering", "OnezoneIa",
                                         "ReducedRedundancy", "Glacier",
                                         "DeepArchive"}],
     service_ok : BOOLEAN,
     healthcheck_ok : BOOLEAN]

BuildInit ==
    /\ GenIdle
    /\ NoWorkload
    /\ clock = 0
    /\ id_rnd_bytes = <<0, 0, 0, 0, 0, 0, 0, 0>>
    /\ id_seq_number = <<0, 0, 0, 0>>
    /\ archCfg \in ArchiveConfigs
    /\ buildPc = "new"
    /\ created = {}
    /\ buildResult = <<>>
    /\ IdsIdle /\ S3Idle /\ MetricsIdle /\ BatcherIdle

Failed(error) == [ok |-> FALSE, error |-> error]

\* Mutant: every service is taken for aws_s3.
NewMatch_AnyService ==
    /\ buildPc = "new"
    /\ buildPc' = IF archCfg.aws_s3.some THEN "create_service" ELSE "panicked"
    /\ UNCHANGED <<archCfg, created, buildResult>>
    /\ UNCHANGED <<genVars, archVars, idVars, s3Vars, metricsVars, batcherVars>>

\* DatadogArchivesSinkConfig::new, the match on the service and the
\* `expect` on the aws_s3 section.
NewMatch ==
    /\ buildPc = "new"
    /\ IF archCfg.service = "aws_s3"
       THEN /\ buildPc' = IF archCfg.aws_s3.some THEN "create_service"
                          ELSE "panicked"
            /\ UNCHANGED buildResult
       ELSE /\ buildPc' = "returned"
            /\ buildResult' = Failed(<<"Unsupported service: ", archCfg.service>>)
    /\ UNCHANGED <<archCfg, created>>
    /\ UNCHANGED <<genVars, archVars, idVars, s3Vars, metricsVars, batcherVars>>

\* new, `create_service(..)?` and `service.client()`
CreateService ==
    /\ buildPc = "create_service"
    /\ IF archCfg.service_ok
       THEN /\ created' = created \cup {"service", "client"}
            /\ buildPc' = "build_s3_sink"
            /\ UNCHANGED buildResult
       ELSE /\ buildPc' = "returned"
            /\ buildResult' = Failed(<<"create_service">>)
            /\ UNCHANGED created
    /\ UNCHANGED archCfg
    /\ UNCHANGED <<genVars, archVars, idVars, s3Vars, metricsVars, batcherVars>>

\* Mutant: every storage class is accepted.
BuildS3Sink_AnyClass ==
    /\ buildPc = "build_s3_sink"
    /\ created' = created \cup {"sink"}
    /\ buildPc' = "build_healthcheck"
    /\ UNCHANGED <<archCfg, buildResult>>
    /\ UNCHANGED <<genVars, archVars, idVars, s3Vars, metricsVars, batcherVars>>

\* build_s3_sink, and the `.map_err(|error| format!("{}", error))?` of new
BuildS3Sink ==
    /\ buildPc = "build_s3_sink"
    /\ IF archCfg.aws_s3.storage_class \in {"DeepArchive", "Glacier"}
       THEN /\ buildPc' = "returned"
            /\ buildResult' = Failed(<<"Unsupported storage class: ",
                                       archCfg.aws_s3.storage_class>>)
            /\ UNCHANGED created
       ELSE /\ created' = created \cup {"sink"}
            /\ buildPc' = "build_healthcheck"
            /\ UNCHANGED buildResult
    /\ UNCHANGED archCfg
    /\ UNCHANGED <<genVars, archVars, idVars, s3Vars, metricsVars, batcherVars>>

\* new, `Ok((svc, build_healthcheck(self.bucket.clone(), client)?))`
BuildHealthcheck ==
    /\ buildPc = "build_healthcheck"
    /\ buildPc' = "returned"
    /\ IF archCfg.healthcheck_ok
       THEN /\ created' = created \cup {"healthcheck"}
            /\ buildResult' = [ok |-> TRUE, value |-> <<"sink", "healthcheck">>]
       ELSE /\ buildResult' = Failed(<<"build_healthcheck">>)
            /\ UNCHANGED created
    /\ UNCHANGED archCfg
    /\ UNCHANGED <<genVars, archVars, idVars, s3Vars, metricsVars, batcherVars>>

BuildNext ==
    \/ NewMatch
    \/ CreateService
    \/ BuildS3Sink
    \/ BuildHealthcheck

SpecBuild == BuildInit /\ [][BuildNext]_vars

\* ---- the build
\* C15: build_s3_sink fails with UnsupportedStorageClass, naming the class,
\* exactly when the class configured is DeepArchive or Glacier, and then
\* no sink (and no healthcheck) has been made; with every other class, or
\* none, it makes the sink, and the build succeeds.  A sink exists only with
\* a class that is supported, so no request meets the rejection.
C15_StorageClass ==
    LET class == archCfg.aws_s3.storage_class
        rejected == buildResult # <<>> /\ ~buildResult.ok
                    /\ buildResult.error[1] = "Unsupported storage class: "
        reached == buildPc \in {"build_healthcheck", "returned"}
                   /\ "client" \in created
    IN  /\ reached =>
               /\ rejected <=> class \in {"DeepArchive", "Glacier"}
               /\ "sink" \in created <=> class \notin {"DeepArchive", "Glacier"}
        /\ rejected =>
               /\ buildResult.error[2] = class
               /\ buildPc = "returned"
               /\ created \cap {"sink", "healthcheck"} = {}
        /\ (reached /\ buildPc = "returned" /\ archCfg.healthcheck_ok
                /\ class \in {"None", "Standard", "StandardIa",
                              "IntelligentTiering", "OnezoneIa",
                              "ReducedRedundancy"}) =>
               buildResult.ok

\* The build of a configuration with the class Glacier has been rejected.
C15_Witness ==
    /\ buildPc = "returned"
    /\ archCfg.aws_s3.storage_class = "Glacier"
    /\ buildResult = Failed(<<"Unsupported storage class: ", "Glacier">>)
    /\ created = {"service", "client"}

\* C16: with a service other than "aws_s3" the build returns the error
\* UnsupportedService carrying the service named, in its first step, and
\* creates no service, client, sink or healthcheck, before it or after it;
\* with "aws_s3" it never returns this error.
C16_UnsupportedService ==
    /\ archCfg.service # "aws_s3" =>
           /\ created = {}
           /\ buildPc \in {"new", "returned"}
           /\ buildPc = "returned" =>
                  buildResult = Failed(<<"Unsupported service: ",
                                         archCfg.service>>)
    /\ (archCfg.service = "aws_s3" /\ buildResult # <<>> /\ ~buildResult.ok) =>
           buildResult.error[1] # "Unsupported service: "

\* The build for the service "gcs" has returned.
C16_Witness ==
    /\ buildPc = "returned"
    /\ archCfg.service = "gcs"
    /\ archCfg.aws_s3.some
    /\ buildResult = Failed(<<"Unsupported service: ", "gcs">>)

\* ---------------------------------------------------------------- metrics
DatadogCom ==
    <<"d", "a", "t", "a", "d", "o", "g", "h", "q", ".", "c", "o", "m">>

DatadogEu == <<"d", "a", "t", "a", "d", "o", "g", "h", "q", ".", "e", "u">>

\* The configurations of the Metrics sink, with the crate version built in:
\* an endpoint and a site are absent, well-formed, or hold a space.
MetricsConfigs ==
    [endpoint : {[some |-> FALSE, value |-> <<>>]}
                    \cup [some : {TRUE},
                          value : {<<"h", "t", "t", "p", ":", "/", "/", "d",
                                     "d", ":", "8", "0">>,
                                   <<"h", "t", "t", "p", ":", "/", "/", "d",
                                     " ", "d">>}],
     region : {"None", "Us", "Eu"},
     site : {[some |-> FALSE, value |-> <<>>]}
                \cup [some : {TRUE},
                      value : {<<"u", "s", "3", ".", "d", "d", ".", "c", "o",
                                 "m">>,
                               <<"d", " ", "d", ".", "c", "o", "m">>}],
     version : {<<"0", ".", "1", "7", ".", "0">>,
                <<"0", ".", "1", "8", ".", "1">>}]

\* Mutant: the region decides before the site.
get_site_RegionFirst(self) ==
    IF self.region = "Eu" THEN DatadogEu
    ELSE IF self.site.some THEN self.site.value
    ELSE DatadogCom

\* DatadogMetricsConfig::get_site
get_site(self) ==
    IF self.site.some THEN self.site.value
    ELSE IF self.region = "Eu" THEN DatadogEu
    ELSE DatadogCom

\* DatadogMetricsConfig::get_base_agent_endpoint
get_base_agent_endpoint(self) ==
    IF self.endpoint.some THEN self.endpoint.value
    ELSE <<"h", "t", "t", "p", "s", ":", "/", "/">>
             \o Replace(self.version, <<".">>, <<"-">>)
             \o <<"-", "v", "e", "c", "t", "o", "r", ".", "a", "g", "e", "n",
                  "t", ".">>
             \o get_site(self)

\* build_uri: the host and the endpoint joined and parsed; a text with a
\* space in it is no Uri.
build_uri(host, endpoint) ==
    LET text == host \o endpoint IN
    [ok |-> \A i \in DOMAIN text : text[i] # " ", uri |-> text]

\* The three kinds of endpoint and their paths, in the order they are built.
MetricEndpoints ==
    <<[kind |-> "Series",
       path |-> <<"/", "a", "p", "i", "/", "v", "1", "/", "s", "e", "r", "i",
                  "e", "s">>],
      [kind |-> "Distribution",
       path |-> <<"/", "a", "p", "i", "/", "v", "1", "/", "d", "i", "s", "t",
                  "r", "i", "b", "u", "t", "i", "o", "n", "_", "p", "o", "i",
                  "n", "t", "s">>],
      [kind |-> "Sketch",
       path |-> <<"/", "a", "p", "i", "/", "b", "e", "t", "a", "/", "s", "k",
                  "e", "t", "c", "h", "e", "s">>]>>

MetricsInit ==
    /\ GenIdle
    /\ NoWorkload
    /\ clock = 0
    /\ id_rnd_bytes = <<0, 0, 0, 0, 0, 0, 0, 0>>
    /\ id_seq_number = <<0, 0, 0, 0>>
    /\ metricsCfg \in MetricsConfigs
    /\ metricsResult = [pc |-> "base", base_uri |-> <<>>, uris |-> <<>>,
                        value |-> <<>>]
    /\ IdsIdle /\ S3Idle /\ BuildIdle /\ BatcherIdle

\* generate_metric_endpoints, `let base_uri = self.get_base_agent_endpoint()`
MetricsBase ==
    /\ metricsResult.pc = "base"
    /\ metricsResult' = [metricsResult EXCEPT
                            !.pc = "uri",
                            !.base_uri = get_base_agent_endpoint(metricsCfg)]
    /\ UNCHANGED <<metricsCfg, genVars, archVars, idVars, s3Vars, buildVars,
                   batcherVars>>

\* generate_metric_endpoints, the next `build_uri(&base_uri, ..)?`, and the
\* `Ok(vec![..])` after the third.
MetricsUri ==
    /\ metricsResult.pc = "uri"
    /\ LET k == Len(metricsResult.uris) + 1
           built == build_uri(metricsResult.base_uri, MetricEndpoints[k].path)
           uris == Append(metricsResult.uris,
                          <<MetricEndpoints[k].kind, built.uri>>)
       IN  metricsResult' =
               IF ~built.ok
               THEN [metricsResult EXCEPT !.pc = "returned", !.uris = <<>>,
                                          !.value = Failed(<<"UriParseError">>)]
               ELSE IF k = Len(MetricEndpoints)
               THEN [metricsResult EXCEPT !.pc = "returned", !.uris = <<>>,
                                          !.value = [ok |-> TRUE, value |-> uris]]
               ELSE [metricsResult EXCEPT !.uris = uris]
    /\ UNCHANGED <<metricsCfg, genVars, archVars, idVars, s3Vars, buildVars,
                   batcherVars>>

MetricsNext ==
    \/ MetricsBase
    \/ MetricsUri

SpecMetrics == MetricsInit /\ [][MetricsNext]_vars

\* ---- the endpoints
\* C18: the base is the endpoint configured, whatever the site and the
\* region; without one it is "https://", the version with a dash for every
\* dot, "-vector.agent." and the site: the one configured, else datadoghq.eu
\* for the region eu, else datadoghq.com.  generate_metric_endpoints returns
\* the base followed by the three paths, for Series, Distribution and
\* Sketch in this order, when all three are Uris, and an error without any
\* endpoint when one is not.
C18_Endpoints ==
    LET c == metricsCfg
        site == IF c.site.some THEN c.site.value
                ELSE IF c.region = "Eu" THEN DatadogEu ELSE DatadogCom
        base == IF c.endpoint.some THEN c.endpoint.value
                ELSE <<"h", "t", "t", "p", "s", ":", "/", "/">>
                     \o [i \in DOMAIN c.version |->
                            IF c.version[i] = "." THEN "-" ELSE c.version[i]]
                     \o <<"-", "v", "e", "c", "t", "o", "r", ".", "a", "g",
                          "e", "n", "t", ".">>
                     \o site
        parses == \A i \in DOMAIN base : base[i] # " "
        kinds == <<"Series", "Distribution", "Sketch">>
    IN  /\ metricsResult.pc # "base" => metricsResult.base_uri = base
        /\ metricsResult.pc = "returned" =>
               /\ metricsResult.value.ok <=> parses
               /\ metricsResult.value.ok =>
                      /\ Len(metricsResult.value.value) = 3
                      /\ \A k \in 1..3 :
                             metricsResult.value.value[k]
                                 = <<kinds[k], base \o MetricEndpoints[k].path>>
               /\ ~metricsResult.value.ok =>
                      /\ metricsResult.value = Failed(<<"UriParseError">>)
                      /\ metricsResult.uris = <<>>

\* The endpoints of a configuration with a site and the region eu, and no
\* endpoint, have been returned.
C18_Witness ==
    /\ metricsResult.pc = "returned"
    /\ metricsResult.value.ok
    /\ ~metricsCfg.endpoint.some
    /\ metricsCfg.site.some
    /\ metricsCfg.region = "Eu"

\* ---------------------------------------------------------------- batcher
\* Mutant: one event more is let into a batch.
ArchivesBatchSettings_Larger ==
    [sink |-> "archives", max_events |-> 25001, max_bytes |-> 100000000,
     timeout |-> 900]

\* DEFAULT_BATCH_SETTINGS of the Archives sink.
ArchivesBatchSettings ==
    [sink |-> "archives", max_events |-> 25000, max_bytes |-> 100000000,
     timeout |-> 900]

\* DEFAULT_BATCH_SETTINGS of the Metrics sink: no limit on the bytes
\* (written -1).
MetricsBatchSettings ==
    [sink |-> "metrics", max_events |-> 100000, max_bytes |-> -1,
     timeout |-> 2]

\* The byte sizes of the events that arrive: small enough for max_events to
\* fill first, large enough for three to pass max_bytes, and larger than
\* max_bytes alone.
EventSizes == {1000, 40000000, 100000001}

\* The first partition takes any number of events; the second takes this
\* many in a run.
MaxOther == 1

EmptyBuffer == [count |-> 0, bytes |-> 0]

\* A buffer that no further event may join.
Full(buffer, settings) ==
    \/ buffer.count >= settings.max_events
    \/ settings.max_bytes >= 0 /\ buffer.bytes >= settings.max_bytes

BatcherInit ==
    /\ GenIdle
    /\ NoWorkload
    /\ clock = 0
    /\ id_rnd_bytes = <<0, 0, 0, 0, 0, 0, 0, 0>>
    /\ id_seq_number = <<0, 0, 0, 0>>
    /\ batcher \in [settings : {ArchivesBatchSettings, MetricsBatchSettings},
                    buffers : {[k \in 1..2 |-> EmptyBuffer]},
                    other : {0},
                    closed : {FALSE}]
    /\ emitted = <<>>
    /\ IdsIdle /\ S3Idle /\ BuildIdle /\ MetricsIdle

\* An event arrives for partition k.  It joins the buffer of its partition
\* when the buffer is empty or the event fits; otherwise the buffer is
\* emitted and the event starts the next one.  Without a limit on the bytes
\* the sizes decide nothing and are not kept.
Admit(k, size) ==
    LET settings == batcher.settings
        buffer == batcher.buffers[k]
        bytes == IF settings.max_bytes >= 0 THEN size ELSE 0
        fits == buffer.count = 0 \/ settings.max_bytes < 0
                \/ buffer.bytes + bytes <= settings.max_bytes
    IN  /\ ~batcher.closed
        /\ emitted = <<>>
        /\ ~Full(buffer, settings)
        /\ k = 2 => batcher.other < MaxOther
        /\ batcher' = [batcher EXCEPT
               !.buffers[k] = IF fits
                              THEN [count |-> buffer.count + 1,
                                    bytes |-> buffer.bytes + bytes]
                              ELSE [count |-> 1, bytes |-> bytes],
               !.other = IF k = 2 THEN @ + 1 ELSE @]
        /\ emitted' = IF fits THEN <<>>
                      ELSE [key |-> k, count |-> buffer.count,
                            bytes |-> buffer.bytes, why |-> "size"]
        /\ UNCHANGED <<genVars, archVars, idVars, s3Vars, buildVars,
                       metricsVars>>

\* The buffer of partition k is emitted: it is full, or its timeout has
\* expired, or upstream has closed.
Flush(k) ==
    LET buffer == batcher.buffers[k] IN
    /\ emitted = <<>>
    /\ buffer.count > 0
    /\ emitted' = [key |-> k, count |-> buffer.count, bytes |-> buffer.bytes,
                   why |-> IF Full(buffer, batcher.settings) THEN "size"
                           ELSE IF batcher.closed THEN "closed"
                           ELSE "timeout"]
    /\ batcher' = [batcher EXCEPT !.buffers[k] = EmptyBuffer]
    /\ UNCHANGED <<genVars, archVars, idVars, s3Vars, buildVars, metricsVars>>

\* Upstream closes.
Close ==
    /\ ~batcher.closed
    /\ batcher' = [batcher EXCEPT !.closed = TRUE]
    /\ UNCHANGED <<emitted, genVars, archVars, idVars, s3Vars, buildVars,
                   metricsVars>>

\* Downstream takes the batch emitted.
Take ==
    /\ emitted # <<>>
    /\ emitted' = <<>>
    /\ UNCHANGED <<batcher, genVars, archVars, idVars, s3Vars, buildVars,
                   metricsVars>>

BatcherNext ==
    \/ \E k \in 1..2, size \in EventSizes : Admit(k, size)
    \/ \E k \in 1..2 : Flush(k)
    \/ Close
    \/ Take

SpecBatcher == BatcherInit /\ [][BatcherNext]_vars

\* ---- the batches
\* C19 (as stated): every batch emitted holds an event, at most 25,000
\* events and 100,000,000 bytes under the settings of the Archives sink,
\* and at most 100,000 events under those of the Metrics sink.
C19_WithinLimits ==
    emitted # <<>> =>
        /\ emitted.count >= 1
        /\ batcher.settings.sink = "archives" =>
               /\ emitted.count <= 25000
               /\ emitted.bytes <= 100000000
        /\ batcher.settings.sink = "metrics" => emitted.count <= 100000

\* C19 (amended): every batch emitted holds an event, at most 25,000 events
\* under the settings of the Archives sink and at most 100,000 under those
\* of the Metrics sink; under the settings of the Archives sink it holds at
\* most 100,000,000 bytes unless it is the single event that is larger than
\* that by itself.
C19_WithinLimitsButSingleton ==
    emitted # <<>> =>
        /\ emitted.count >= 1
        /\ batcher.settings.sink = "archives" =>
               /\ emitted.count <= 25000
               /\ emitted.bytes <= 100000000 \/ emitted.count = 1
        /\ batcher.settings.sink = "metrics" => emitted.count <= 100000

\* A batch of the Archives sink is emitted with 25,000 events, while the
\* other partition holds an event.
C19_Witness ==
    /\ emitted # <<>>
    /\ batcher.settings.sink = "archives"
    /\ emitted.count = 25000
    /\ emitted.why = "size"
    /\ batcher.buffers[2].count = 1

\* ---- decoding errors
\* C21: an error item of the stream never ends the source.  One that can
\* continue leaves the source on the same line with the items after it; one
\* that cannot drops the rest of the line and moves to the next tick; in
\* both cases nothing is returned, generated or forwarded by the step, and
\* the source takes no other step at an error item.  The
\* source returns Err only when the downstream is closed, and without a
\* shutdown it ends with n = count; n counts the lines that are done,
\* whatever number of events they yielded.
C21_ErrorsDoNotTerminate ==
    /\ [](/\ result = "Err" => ~rxOpen
          /\ (pc = "done" /\ result = "Ok" /\ ~shutdown) => n = cfg.count
          /\ pc \in {"stream", "send"} => n = Len(lines) - 1
          /\ pc \in {"loop", "tick", "generate"} => n = Len(lines))
    /\ [][(pc = "stream" /\ stream # <<>> /\ ~Head(stream).ok
               /\ <<pc, stream, n, result>>' # <<pc, stream, n, result>>) =>
              /\ result' = "none"
              /\ lines' = lines
              /\ Forwarded' = Forwarded
              /\ IF Head(stream).can_continue
                 THEN pc' = "stream" /\ stream' = Tail(stream) /\ n' = n
                 ELSE pc' = "loop" /\ n' = n + 1
         ]_vars

\* Every line of a run hit an error that cannot continue: the source went
\* through all its ticks without an event and returned Ok.
C21_Witness ==
    /\ cfg.decoder = "err_stop"
    /\ cfg.count = MaxCount
    /\ pc = "done"
    /\ result = "Ok"
    /\ n = cfg.count
    /\ Len(lines) = cfg.count
    /\ Forwarded = 0


\* ---- the end of a build
\* C22: for every Archives configuration, the one with service = "aws_s3" and
\* no aws_s3 section included, a build never aborts the process, and a build
\* that has returned has returned a sink with its healthcheck or an error
\* value.  The `expect` on the absent section panics, so the first conjunct
\* fails for that configuration.
C22_BuildNeverAborts ==
    /\ buildPc # "panicked"
    /\ buildPc = "returned" =>
          \/ buildResult = [ok |-> TRUE, value |-> <<"sink", "healthcheck">>]
          \/ ~buildResult.ok


\* ---- what build_request leaves alone
\* C23: the request build_request returns holds the metadata it received
\* with nothing but the partition_key changed (the same count, byte_size and
\* finalizers), the payload it received as its body, the builder's bucket,
\* the content encoding gzip, and the ACL, grant, encryption, storage-class
\* and tag options of the builder's configuration; the builder and the
\* requests built before are as they were; and the request built from the
\* same inputs with another uuid is the same but for its key, which has the
\* same length and differs only within the 36 characters before ".json.gz".
C23_OnlyKeyChanges ==
    [][(splitOut # <<>> /\ payloadIn # <<>>
            /\ Len(request') = Len(request) + 1) =>
           LET r == request'[Len(request')]
               m == splitOut.metadata
               key == r.metadata.partition_key
               uuidAt == (Len(key) - 43)..(Len(key) - 8)
           IN  /\ DOMAIN r.metadata = DOMAIN m
               /\ r.metadata.count = m.count
               /\ r.metadata.byte_size = m.byte_size
               /\ r.metadata.finalizers = m.finalizers
               /\ r.body = payloadIn.bytes
               /\ r.bucket = builder.bucket
               /\ r.content_encoding = "gzip"
               /\ \A o \in {"acl", "grant_full_control", "grant_read",
                            "grant_read_acp", "grant_write_acp",
                            "server_side_encryption", "ssekms_key_id",
                            "storage_class", "tags"} :
                      r.options[o] = builder.config.options[o]
               /\ builder' = builder
               /\ SubSeq(request', 1, Len(request)) = request
               /\ \A u \in Uuids :
                      LET other == build_request(builder, m, payloadIn.bytes, u)
                          otherKey == other.metadata.partition_key
                      IN  /\ [other EXCEPT !.metadata.partition_key = key] = r
                          /\ Len(otherKey) = Len(key)
                          /\ \A i \in (1..Len(key)) \ uuidAt :
                                 otherKey[i] = key[i]
                          /\ SubSeq(otherKey, Len(key) - 43, Len(key) - 8) = u
      ]_vars

\* Two requests have been built by a builder with every option set, from
\* equal metadata with three finalizers and equal payloads; their keys
\* differ and nothing else does.
C23_Witness ==
    /\ Len(request) = 2
    /\ builder.config.options.acl = "private"
    /\ builder.key_prefix.some
    /\ Len(request[1].metadata.finalizers) = 3
    /\ request[1].body = <<31, 139, 8>>
    /\ request[1] # request[2]
    /\ [request[2] EXCEPT !.metadata.partition_key =
                              request[1].metadata.partition_key] = request[1]

====
